---- MODULE Spec2Model ----
(***************************************************************************)
(* The stream binding of luvit (src/src/luv_stream.c): listen, read_start, *)
(* read_stop, write, shutdown and the completion handlers the native event *)
(* loop calls (on_connection, on_read, after_connect, after_shutdown,      *)
(* after_write), as a state machine over handles, requests, callback       *)
(* contexts, the Lua registry and the handle's read buffer.                 *)
(*                                                                         *)
(* One step is one call of a binding function by script code or one call   *)
(* of a completion handler by the native loop.  luv_on_read with data is    *)
(* two steps: up to the point where the "data" listeners run (line 58),    *)
(* and from their return to the end (lines 70-82); in between the          *)
(* listeners may call any binding function or run the loop again.          *)
(***************************************************************************)
EXTENDS Integers, Sequences, FiniteSets, TLC

\* ---------------------------------------------------------------- bounds
NumHandles == 2      \* handles that exist
MaxReq == 2          \* request slots (malloc'ed uv_write_t / uv_shutdown_t / uv_connect_t)
MaxRef == 3          \* operations that pin a reference are not called above this count
MaxUnder == 1        \* read_stop is not called once the count is this far below zero
BufLen == 2          \* length of a handle's read buffer

Handles == 1..NumHandles
Reqs == 1..MaxReq
RefIds == 1..(2 * MaxReq)
\* The handle whose whole life cycle Spec explores.
Driven == {1}

\* ------------------------------------------------------------ Lua values
LUA_NOREF == -2
Nil == [t |-> "nil"]
Function(id) == [t |-> "function", id |-> id]
Number(n) == [t |-> "number", n |-> n]
Userdata(h) == [t |-> "userdata", handle |-> h]
\* A buffer object: `own` is the handle whose read buffer it is (0: none),
\* `slice` tells a slice from the object it was cut from.
Buffer(own, data, slice) == [t |-> "buffer", own |-> own, data |-> data, slice |-> slice]
\* lhandle->buffer: the read buffer of handle h, BufLen bytes filled by the native layer.
HandleBuffer(h) == Buffer(h, [i \in 1..BufLen |-> 10 * h + i], FALSE)
\* The chunk a script passes to write.
Chunk == Buffer(0, <<104, 105>>, FALSE)

UV_EOF == "UV_EOF"
ErrCodes == {"UV_EOF", "UV_ECONNRESET"}
UV_OK == "UV_OK"
\* What the native layer reports to a completion handler: the status and
\* the loop's last error.
Outcomes == {[status |-> 0, err |-> UV_OK]} \cup {[status |-> -1, err |-> e] : e \in ErrCodes}
\* What it reports to the read handler: nread and the loop's last error.
Reads == {[nread |-> n, err |-> UV_OK] : n \in 0..BufLen}
           \cup {[nread |-> -1, err |-> e] : e \in ErrCodes}

VARIABLES
  refCount,   \* [Handles -> Int]: lhandle->refCount, the keep-alive count
  listening,  \* [Handles -> BOOLEAN]: uv_listen succeeded on the handle
  reading,    \* [Handles -> BOOLEAN]: uv_read_start registration is active
  listeners,  \* [Handles -> BOOLEAN]: listen registered a "connection" listener
  isConst,    \* [Handles -> 0..1]: lhandle->buffer->isConst
  frames,     \* Seq(Handles): luv_on_read calls that are inside luv_emit_event "data"
  reqs,       \* [Reqs -> request record]: the requests and their callback contexts
  registry,   \* [RefIds -> Lua value]: LUA_REGISTRYINDEX slots taken by luaL_ref
  readOpen,   \* [Handles -> BOOLEAN]: a read_start awaits its read_stop, only reads since
  readBase,   \* [Handles -> Int]: the keep-alive count before that read_start
  out         \* what the last step did: events, calls, errors raised, memory freed

vars == <<refCount, listening, reading, listeners, isConst, frames, reqs,
          registry, readOpen, readBase, out>>

\* ------------------------------------------------------------- helpers
FreeReq == [kind |-> "none", h |-> 0, inflight |-> FALSE, reqLive |-> FALSE,
            ctxLive |-> FALSE, rcb |-> LUA_NOREF, rdata |-> LUA_NOREF,
            cb |-> Nil, base |-> 0]

\* What a step reports; every action sets all of it.
Report(op, h) ==
  [op |-> op, h |-> h, req |-> 0, status |-> 0, events |-> <<>>, calls |-> <<>>,
   raised |-> FALSE, freedBuf |-> 0, freedReq |-> 0, freedCtx |-> 0,
   base |-> 0, paired |-> FALSE, cb |-> Nil, err |-> UV_OK, released |-> 0,
   before |-> [ref |-> refCount[h], isConst |-> isConst[h], listeners |-> listeners[h]]]

Event(name, args) == [name |-> name, args |-> args]
Call(fn, args) == [fn |-> fn, args |-> args]

\* luv_push_async_error: the error value built from the loop's last error.
luv_push_async_error(code, op) == [t |-> "error", code |-> code, op |-> op]

\* luv_handle_ref / luv_handle_unref: the keep-alive count of one handle.
luv_handle_ref(rc, h) == [rc EXCEPT ![h] = @ + 1]
luv_handle_unref(rc, h) == [rc EXCEPT ![h] = @ - 1]

\* luaL_ref returns a registry key that is not in use, luaL_unref gives it
\* back.  The key taken for request slot r is 2r-1 for its callback and 2r
\* for its data: free whenever the slot's previous context released its own.
CbKey(r) == 2 * r - 1
DataKey(r) == 2 * r
luaL_unref(reg, ref) == IF ref = LUA_NOREF THEN reg ELSE [reg EXCEPT ![ref] = Nil]

\* luv_io_ctx_init / luv_io_ctx_add / luv_io_ctx_callback_add on the context
\* of request slot r, kept in the request record rq, and on the registry.
luv_io_ctx_init(rq) == [rq EXCEPT !.ctxLive = TRUE, !.rcb = LUA_NOREF, !.rdata = LUA_NOREF]
luv_io_ctx_add(rq, r) == [rq EXCEPT !.rdata = DataKey(r)]
luv_io_ctx_add_reg(reg, r, v) == [reg EXCEPT ![DataKey(r)] = v]
luv_io_ctx_callback_add(rq, r, v) ==
  IF v.t = "function" THEN [rq EXCEPT !.rcb = CbKey(r)] ELSE rq
luv_io_ctx_callback_add_reg(reg, r, v) ==
  IF v.t = "function" THEN [reg EXCEPT ![CbKey(r)] = v] ELSE reg
\* luv_io_ctx_callback_rawgeti: the registered callback, nil when none.
luv_io_ctx_callback_rawgeti(rq, reg) == IF rq.rcb = LUA_NOREF THEN Nil ELSE reg[rq.rcb]
\* luv_io_ctx_unref: both references released.
luv_io_ctx_unref(rq, reg) == luaL_unref(luaL_unref(reg, rq.rcb), rq.rdata)

\* How many registry references are live in reg and released in reg2.
Released(reg, reg2) == Cardinality({k \in RefIds : reg[k] # Nil /\ reg2[k] = Nil})

\* buffer_slice(L, buffer, offset, length)
buffer_slice(buf, offset, length) ==
  Buffer(buf.own, SubSeq(buf.data, offset + 1, offset + length), TRUE)

\* lua_remove(L, -2) and the top n values of the stack
lua_remove2(stack) == SubSeq(stack, 1, Len(stack) - 2) \o <<stack[Len(stack)]>>
Top(stack, n) == SubSeq(stack, Len(stack) - n + 1, Len(stack))

\* The first free request slot (malloc).
FreeSlots == {r \in Reqs : ~reqs[r].reqLive /\ ~reqs[r].ctxLive}
NewSlot == IF FreeSlots = {} THEN 0 ELSE CHOOSE r \in FreeSlots : \A s \in FreeSlots : r <= s

\* The in-flight requests of handle h expect a count d higher from now on:
\* another operation changed the count by d while they are in flight.
Drift(rq, h, d) ==
  [r \in Reqs |-> IF rq[r].inflight /\ rq[r].h = h
                  THEN [rq[r] EXCEPT !.base = @ + d] ELSE rq[r]]

Init ==
  /\ refCount = [h \in Handles |-> 0]
  /\ listening = [h \in Handles |-> FALSE]
  /\ reading = [h \in Handles |-> FALSE]
  /\ listeners = [h \in Handles |-> FALSE]
  /\ isConst = [h \in Handles |-> 0]
  /\ frames = <<>>
  /\ reqs = [r \in Reqs |-> FreeReq]
  /\ registry = [i \in RefIds |-> Nil]
  /\ readOpen = [h \in Handles |-> FALSE]
  /\ readBase = [h \in Handles |-> 0]
  /\ out = Report("init", 1)

\* --------------------------------------------------- stream operations

luv_listen_without_ref(h, ok) ==
  /\ refCount[h] < MaxRef
  /\ listeners' = [listeners EXCEPT ![h] = TRUE]
  /\ IF ok
     THEN /\ listening' = [listening EXCEPT ![h] = TRUE]
          /\ out' = [Report("listen", h) EXCEPT !.events = <<Event("listening", <<>>)>>]
     ELSE /\ listening' = listening
          /\ out' = [Report("listen", h) EXCEPT !.status = -1, !.raised = TRUE]
  /\ readOpen' = [readOpen EXCEPT ![h] = FALSE]
  /\ readBase' = [readBase EXCEPT ![h] = 0]
  /\ UNCHANGED <<refCount, reqs, reading, isConst, frames, registry>>

\* luv_listen(handle, callback, backlog): ok is uv_listen's answer.  The
\* "connection" listener is registered (line 179) before uv_listen is
\* called (line 181); luaL_error (line 183) does not return.
luv_listen(h, ok) ==
  /\ refCount[h] < MaxRef
  /\ listeners' = [listeners EXCEPT ![h] = TRUE]
  /\ IF ok
     THEN /\ listening' = [listening EXCEPT ![h] = TRUE]
          /\ refCount' = luv_handle_ref(refCount, h)
          /\ reqs' = Drift(reqs, h, 1)
          /\ out' = [Report("listen", h) EXCEPT !.events = <<Event("listening", <<>>)>>]
     ELSE /\ out' = [Report("listen", h) EXCEPT !.status = -1, !.raised = TRUE]
          /\ UNCHANGED <<listening, refCount, reqs>>
  /\ readOpen' = [readOpen EXCEPT ![h] = FALSE]
  /\ readBase' = [readBase EXCEPT ![h] = 0]
  /\ UNCHANGED <<reading, isConst, frames, registry>>

\* luv_read_start(handle): ok is uv_read_start's answer, which the code drops.
luv_read_start(h, ok) ==
  /\ refCount[h] < MaxRef
  /\ reading' = [reading EXCEPT ![h] = IF ok THEN TRUE ELSE @]
  /\ refCount' = luv_handle_ref(refCount, h)
  /\ reqs' = Drift(reqs, h, 1)
  /\ readOpen' = [readOpen EXCEPT ![h] = TRUE]
  /\ readBase' = [readBase EXCEPT ![h] = refCount[h]]
  /\ out' = [Report("read_start", h) EXCEPT !.status = IF ok THEN 0 ELSE -1]
  /\ UNCHANGED <<listening, listeners, isConst, frames, registry>>

luv_read_stop_forgets_unref(h) ==
  /\ refCount[h] > -MaxUnder
  /\ reading' = [reading EXCEPT ![h] = FALSE]
  /\ readOpen' = [readOpen EXCEPT ![h] = FALSE]
  /\ readBase' = [readBase EXCEPT ![h] = 0]
  /\ out' = [Report("read_stop", h) EXCEPT !.paired = readOpen[h], !.base = readBase[h]]
  /\ UNCHANGED <<refCount, reqs, listening, listeners, isConst, frames, registry>>

\* luv_read_stop(handle)
luv_read_stop(h) ==
  /\ refCount[h] > -MaxUnder
  /\ reading' = [reading EXCEPT ![h] = FALSE]
  /\ refCount' = luv_handle_unref(refCount, h)
  /\ reqs' = Drift(reqs, h, -1)
  /\ readOpen' = [readOpen EXCEPT ![h] = FALSE]
  /\ readBase' = [readBase EXCEPT ![h] = 0]
  /\ out' = [Report("read_stop", h) EXCEPT !.paired = readOpen[h], !.base = readBase[h]]
  /\ UNCHANGED <<listening, listeners, isConst, frames, registry>>

luv_read_stop_noref_unrefs(h) ==
  /\ refCount[h] > -MaxUnder
  /\ reading' = [reading EXCEPT ![h] = FALSE]
  /\ refCount' = luv_handle_unref(refCount, h)
  /\ reqs' = Drift(reqs, h, -1)
  /\ readOpen' = [readOpen EXCEPT ![h] = FALSE]
  /\ readBase' = [readBase EXCEPT ![h] = 0]
  /\ out' = [Report("read_stop_noref", h) EXCEPT !.paired = readOpen[h], !.base = readBase[h]]
  /\ UNCHANGED <<listening, listeners, isConst, frames, registry>>

\* luv_read_stop_noref(handle)
luv_read_stop_noref(h) ==
  /\ reading' = [reading EXCEPT ![h] = FALSE]
  /\ readOpen' = [readOpen EXCEPT ![h] = FALSE]
  /\ readBase' = [readBase EXCEPT ![h] = 0]
  /\ out' = [Report("read_stop_noref", h) EXCEPT !.paired = readOpen[h], !.base = readBase[h]]
  /\ UNCHANGED <<refCount, reqs, listening, listeners, isConst, frames, registry>>

write_ctx_without_chunk(r, h, cb) ==
  LET r0 == luv_io_ctx_init([FreeReq EXCEPT !.kind = "write", !.h = h, !.reqLive = TRUE,
                                            !.cb = cb, !.base = refCount[h]])
  IN  [req |-> luv_io_ctx_callback_add(r0, r, cb),
       reg |-> luv_io_ctx_callback_add_reg(registry, r, cb)]

\* The request record and the registry after luv_write's lines 245-253:
\* the chunk and the callback registered in a fresh context.
write_ctx(r, h, cb) ==
  LET r0 == luv_io_ctx_init([FreeReq EXCEPT !.kind = "write", !.h = h, !.reqLive = TRUE,
                                            !.cb = cb, !.base = refCount[h]])
      r1 == luv_io_ctx_add(r0, r)
      g1 == luv_io_ctx_add_reg(registry, r, Chunk)
  IN  [req |-> luv_io_ctx_callback_add(r1, r, cb),
       reg |-> luv_io_ctx_callback_add_reg(g1, r, cb)]

\* luv_write(handle, chunk, callback): ok is uv_write's answer, which the
\* code drops; a refused write never completes.
luv_write(h, cb, ok) ==
  /\ refCount[h] < MaxRef
  /\ FreeSlots # {}
  /\ LET c == write_ctx(NewSlot, h, cb) IN
       /\ reqs' = [Drift(reqs, h, 1) EXCEPT ![NewSlot] = [c.req EXCEPT !.inflight = ok, !.base = IF ok THEN @ ELSE 0]]
       /\ registry' = c.reg
  /\ refCount' = luv_handle_ref(refCount, h)
  /\ readOpen' = [readOpen EXCEPT ![h] = FALSE]
  /\ readBase' = [readBase EXCEPT ![h] = 0]
  /\ out' = [Report("write", h) EXCEPT !.req = NewSlot, !.cb = cb, !.status = IF ok THEN 0 ELSE -1]
  /\ UNCHANGED <<listening, reading, listeners, isConst, frames>>

\* The request record and the registry after luv_shutdown's lines 158-164.
shutdown_ctx(r, h, cb) ==
  LET r0 == luv_io_ctx_init([FreeReq EXCEPT !.kind = "shutdown", !.h = h, !.reqLive = TRUE,
                                            !.cb = cb, !.base = refCount[h]])
  IN  [req |-> luv_io_ctx_callback_add(r0, r, cb),
       reg |-> luv_io_ctx_callback_add_reg(registry, r, cb)]

\* luv_shutdown(handle, callback): ok is uv_shutdown's answer, dropped too.
luv_shutdown(h, cb, ok) ==
  /\ refCount[h] < MaxRef
  /\ FreeSlots # {}
  /\ LET c == shutdown_ctx(NewSlot, h, cb) IN
       /\ reqs' = [Drift(reqs, h, 1) EXCEPT ![NewSlot] = [c.req EXCEPT !.inflight = ok, !.base = IF ok THEN @ ELSE 0]]
       /\ registry' = c.reg
  /\ refCount' = luv_handle_ref(refCount, h)
  /\ readOpen' = [readOpen EXCEPT ![h] = FALSE]
  /\ readBase' = [readBase EXCEPT ![h] = 0]
  /\ out' = [Report("shutdown", h) EXCEPT !.req = NewSlot, !.cb = cb, !.status = IF ok THEN 0 ELSE -1]
  /\ UNCHANGED <<listening, reading, listeners, isConst, frames>>

\* -------------------------------------------------- completion handlers

\* luv_on_connection(handle, status)
luv_on_connection(h, status, err) ==
  /\ listening[h]
  /\ out' = [Report("on_connection", h) EXCEPT
               !.status = status, !.err = err,
               !.events = IF status = -1
                          THEN <<Event("error", <<luv_push_async_error(err, "on_connection")>>)>>
                          ELSE <<Event("connection", <<>>)>>]
  /\ readOpen' = [readOpen EXCEPT ![h] = FALSE]
  /\ readBase' = [readBase EXCEPT ![h] = 0]
  /\ UNCHANGED <<refCount, listening, reading, listeners, isConst, frames, reqs, registry>>

on_read_violation_unchecked(h) == FALSE

\* Line 44: the read buffer is already marked read-only.
on_read_violation(h) == isConst[h] = 1

on_read_stack_never_slices(h, nread) ==
  <<Userdata(h), HandleBuffer(h), Number(nread)>>

\* Lines 38-55: the Lua stack when "data" is emitted: the userdata, the
\* read buffer or its slice, and the byte count.
on_read_stack(h, nread) ==
  LET s0 == <<Userdata(h)>>
      s1 == Append(s0, HandleBuffer(h))
      s2 == IF nread # Len(HandleBuffer(h).data)
            THEN lua_remove2(Append(s1, buffer_slice(HandleBuffer(h), 0, nread)))
            ELSE s1
  IN  Append(s2, Number(nread))

on_read_status_eof_as_error(err) ==
  <<Event("error", <<luv_push_async_error(err, "on_read")>>)>>

\* Lines 73-79: what a negative nread emits.
on_read_status(err) ==
  IF err = UV_EOF
  THEN <<Event("end", <<>>)>>
  ELSE <<Event("error", <<luv_push_async_error(err, "on_read")>>)>>

\* Line 82 and the exits that reach it: luaL_error (line 45) does not return.
on_read_free(exit) == IF exit = "violation" THEN 0 ELSE 1

\* luv_on_read(handle, nread, buf), up to the return of a negative nread,
\* up to luaL_error, or until the "data" listeners are running.
luv_on_read(h, nread, err) ==
  /\ reading[h]
  /\ IF nread >= 0
     THEN IF on_read_violation(h)
          THEN /\ out' = [Report("on_read:violation", h) EXCEPT !.status = nread, !.raised = TRUE,
                                 !.freedBuf = on_read_free("violation")]
               /\ UNCHANGED <<isConst, frames>>
          ELSE /\ isConst' = [isConst EXCEPT ![h] = 1]
               /\ frames' = Append(frames, h)
               /\ out' = [Report("on_read:data", h) EXCEPT
                            !.status = nread,
                            !.events = <<Event("data", Top(on_read_stack(h, nread), 2))>>]
     ELSE /\ out' = [Report("on_read:status", h) EXCEPT
                       !.status = nread, !.err = err, !.events = on_read_status(err),
                       !.freedBuf = on_read_free("status")]
          /\ UNCHANGED <<isConst, frames>>
  /\ UNCHANGED <<refCount, listening, reading, listeners, reqs, registry, readOpen, readBase>>

on_read_clear_forgotten(flags, h) == flags

\* Line 70: the flag after the "data" listeners returned.
on_read_clear(flags, h) == [flags EXCEPT ![h] = 0]

\* luv_on_read from the return of luv_emit_event "data" to its end (lines 70-82).
luv_on_read_return(h) ==
  /\ frames # <<>>
  /\ frames[Len(frames)] = h
  /\ isConst' = on_read_clear(isConst, h)
  /\ frames' = SubSeq(frames, 1, Len(frames) - 1)
  /\ out' = [Report("on_read:return", h) EXCEPT !.freedBuf = on_read_free("data")]
  /\ UNCHANGED <<refCount, listening, reading, listeners, reqs, registry, readOpen, readBase>>

\* A request slot after its memory was freed: gone when the context went too.
Freed(rq) ==
  IF rq.reqLive \/ rq.ctxLive THEN [rq EXCEPT !.inflight = FALSE, !.base = 0] ELSE FreeReq

after_write_calls_without_error(fn, status, err) ==
  IF fn.t = "function" THEN <<Call(fn, <<>>)>> ELSE <<>>

\* Lines 138-147: what luv_after_write calls.
after_write_calls(fn, status, err) ==
  IF fn.t = "function"
  THEN IF status = -1
       THEN <<Call(fn, <<luv_push_async_error(err, "after_write")>>)>>
       ELSE <<Call(fn, <<>>)>>
  ELSE <<>>

after_write_callback_of_any_request(rq, reg) ==
  LET live == {k \in RefIds : reg[k].t = "function"}
  IN  IF live = {} THEN Nil ELSE reg[CHOOSE k \in live : \A j \in live : k <= j]

\* Line 135: the callback registered in the context of this request.
after_write_callback(rq, reg) == luv_io_ctx_callback_rawgeti(rq, reg)

\* Line 136: luv_io_ctx_unref on the context, which is still allocated.
after_write_release(rq, reg) == luv_io_ctx_unref(rq, reg)

after_write_unref_skipped(rc, h) == rc

\* Line 149
after_write_unref(rc, h) == luv_handle_unref(rc, h)

\* Lines 150-151: free(req->data); free(req)
after_write_free(rq) == [rq EXCEPT !.ctxLive = FALSE, !.reqLive = FALSE]

\* luv_after_write(req, status)
luv_after_write(r, status, err) ==
  /\ reqs[r].inflight
  /\ reqs[r].kind = "write"
  /\ LET rq == reqs[r]
         fn == after_write_callback(rq, registry)
         done == after_write_free([rq EXCEPT !.rcb = LUA_NOREF, !.rdata = LUA_NOREF])
     IN  /\ registry' = after_write_release(rq, registry)
         /\ refCount' = after_write_unref(refCount, rq.h)
         /\ reqs' = Drift([reqs EXCEPT ![r] = Freed(done)], rq.h, -1)
         /\ readOpen' = [readOpen EXCEPT ![rq.h] = FALSE]
         /\ readBase' = [readBase EXCEPT ![rq.h] = 0]
         /\ out' = [Report("after_write", rq.h) EXCEPT
                      !.req = r, !.status = status, !.err = err, !.cb = rq.cb, !.base = rq.base,
                      !.calls = after_write_calls(fn, status, err),
                      !.released = Released(registry, after_write_release(rq, registry)),
                      !.freedCtx = IF rq.ctxLive /\ ~done.ctxLive THEN 1 ELSE 0,
                      !.freedReq = IF rq.reqLive /\ ~done.reqLive THEN 1 ELSE 0]
  /\ UNCHANGED <<listening, reading, listeners, isConst, frames>>

\* Lines 111-120: what luv_after_shutdown calls.
after_shutdown_calls(fn, status, err) ==
  IF fn.t = "function"
  THEN IF status = -1
       THEN <<Call(fn, <<luv_push_async_error(err, "after_shutdown")>>)>>
       ELSE <<Call(fn, <<>>)>>
  ELSE <<>>

\* Line 108: the callback registered in the context of this request.
after_shutdown_callback(rq, reg) == luv_io_ctx_callback_rawgeti(rq, reg)

\* Line 109: luv_io_ctx_unref on the context, which is still allocated.
after_shutdown_release(rq, reg) == luv_io_ctx_unref(rq, reg)

\* Line 122
after_shutdown_unref(rc, h) == luv_handle_unref(rc, h)

after_shutdown_free_leaks_ctx(rq) == [rq EXCEPT !.reqLive = FALSE]

\* Lines 123-124: free(req->data); free(req)
after_shutdown_free(rq) == [rq EXCEPT !.ctxLive = FALSE, !.reqLive = FALSE]

\* luv_after_shutdown(req, status)
luv_after_shutdown(r, status, err) ==
  /\ reqs[r].inflight
  /\ reqs[r].kind = "shutdown"
  /\ LET rq == reqs[r]
         fn == after_shutdown_callback(rq, registry)
         done == after_shutdown_free([rq EXCEPT !.rcb = LUA_NOREF, !.rdata = LUA_NOREF])
     IN  /\ registry' = after_shutdown_release(rq, registry)
         /\ refCount' = after_shutdown_unref(refCount, rq.h)
         /\ reqs' = Drift([reqs EXCEPT ![r] = Freed(done)], rq.h, -1)
         /\ readOpen' = [readOpen EXCEPT ![rq.h] = FALSE]
         /\ readBase' = [readBase EXCEPT ![rq.h] = 0]
         /\ out' = [Report("after_shutdown", rq.h) EXCEPT
                      !.req = r, !.status = status, !.err = err, !.cb = rq.cb, !.base = rq.base,
                      !.calls = after_shutdown_calls(fn, status, err),
                      !.released = Released(registry, after_shutdown_release(rq, registry)),
                      !.freedCtx = IF rq.ctxLive /\ ~done.ctxLive THEN 1 ELSE 0,
                      !.freedReq = IF rq.reqLive /\ ~done.reqLive THEN 1 ELSE 0]
  /\ UNCHANGED <<listening, reading, listeners, isConst, frames>>

\* A connect request as the data model describes a Request: the request, a
\* callback context holding the callback, and a keep-alive reference.
connect_ctx(r, h, cb) ==
  LET r0 == luv_io_ctx_init([FreeReq EXCEPT !.kind = "connect", !.h = h, !.reqLive = TRUE,
                                            !.cb = cb, !.base = refCount[h]])
  IN  [req |-> luv_io_ctx_callback_add(r0, r, cb),
       reg |-> luv_io_ctx_callback_add_reg(registry, r, cb)]

luv_connect(h, cb) ==
  /\ refCount[h] < MaxRef
  /\ FreeSlots # {}
  /\ LET c == connect_ctx(NewSlot, h, cb) IN
       /\ reqs' = [Drift(reqs, h, 1) EXCEPT ![NewSlot] = [c.req EXCEPT !.inflight = TRUE]]
       /\ registry' = c.reg
  /\ refCount' = luv_handle_ref(refCount, h)
  /\ readOpen' = [readOpen EXCEPT ![h] = FALSE]
  /\ readBase' = [readBase EXCEPT ![h] = 0]
  /\ out' = [Report("connect", h) EXCEPT !.req = NewSlot, !.cb = cb]
  /\ UNCHANGED <<listening, reading, listeners, isConst, frames>>

after_connect_events_always_connect(status, err) == <<Event("connect", <<>>)>>

\* Lines 89-94: what luv_after_connect emits.
after_connect_events(status, err) ==
  IF status = -1
  THEN <<Event("error", <<luv_push_async_error(err, "after_connect")>>)>>
  ELSE <<Event("connect", <<>>)>>

\* Line 95: free(req)
after_connect_free(rq) == [rq EXCEPT !.reqLive = FALSE]

\* luv_after_connect(req, status)
luv_after_connect(r, status, err) ==
  /\ reqs[r].inflight
  /\ reqs[r].kind = "connect"
  /\ LET rq == reqs[r]
         done == after_connect_free(rq)
     IN  /\ reqs' = [reqs EXCEPT ![r] = Freed(done)]
         /\ readOpen' = [readOpen EXCEPT ![rq.h] = FALSE]
         /\ readBase' = [readBase EXCEPT ![rq.h] = 0]
         /\ out' = [Report("after_connect", rq.h) EXCEPT
                      !.req = r, !.status = status, !.err = err, !.cb = rq.cb, !.base = rq.base,
                      !.events = after_connect_events(status, err),
                      !.freedCtx = IF rq.ctxLive /\ ~done.ctxLive THEN 1 ELSE 0,
                      !.freedReq = IF rq.reqLive /\ ~done.reqLive THEN 1 ELSE 0]
  /\ UNCHANGED <<refCount, registry, listening, reading, listeners, isConst, frames>>

\* ------------------------------------------------------- specification
Callbacks(r) == {Nil, Function(r)}

\* Every call of the binding on the driven handle and every completion the
\* native layer may deliver for it; the native layer accepts every write
\* and shutdown (NextRefuse adds the ones it refuses).
Next ==
  \E h \in Driven :
    \/ \E ok \in BOOLEAN : luv_listen(h, ok)
    \/ \E ok \in BOOLEAN : luv_read_start(h, ok)
    \/ luv_read_stop(h)
    \/ luv_read_stop_noref(h)
    \/ \E cb \in Callbacks(NewSlot) : luv_write(h, cb, TRUE)
    \/ \E cb \in Callbacks(NewSlot) : luv_shutdown(h, cb, TRUE)
    \/ \E o \in Outcomes : luv_on_connection(h, o.status, o.err)
    \/ \E i \in Reads : luv_on_read(h, i.nread, i.err)
    \/ luv_on_read_return(h)
    \/ \E r \in Reqs : \E o \in Outcomes : luv_after_write(r, o.status, o.err)
    \/ \E r \in Reqs : \E o \in Outcomes : luv_after_shutdown(r, o.status, o.err)

\* Connect requests, issued by the TCP binding and completed here, among
\* writes and reads on the same handle.
NextConnect ==
  \E h \in Driven :
    \/ \E cb \in Callbacks(NewSlot) : luv_connect(h, cb)
    \/ \E r \in Reqs : \E o \in Outcomes : luv_after_connect(r, o.status, o.err)
    \/ \E cb \in Callbacks(NewSlot) : luv_write(h, cb, TRUE)
    \/ \E r \in Reqs : \E o \in Outcomes : luv_after_write(r, o.status, o.err)
    \/ \E ok \in BOOLEAN : luv_read_start(h, ok)
    \/ luv_read_stop(h)

\* Writes and shutdowns the native layer refuses at issuance, which never
\* complete, among everything else.
NextRefuse ==
  \/ Next
  \/ \E h \in Driven : \E cb \in Callbacks(NewSlot) : luv_write(h, cb, FALSE)
  \/ \E h \in Driven : \E cb \in Callbacks(NewSlot) : luv_shutdown(h, cb, FALSE)

\* Writes and shutdowns on every handle and their completions, in any
\* order the native layer may deliver them.
NextPair ==
  \/ \E h \in Handles : \E cb \in Callbacks(NewSlot) : luv_write(h, cb, TRUE)
  \/ \E h \in Handles : \E cb \in Callbacks(NewSlot) : luv_shutdown(h, cb, TRUE)
  \/ \E r \in Reqs : \E o \in Outcomes : luv_after_write(r, o.status, o.err)
  \/ \E r \in Reqs : \E o \in Outcomes : luv_after_shutdown(r, o.status, o.err)

Spec == Init /\ [][Next]_vars
SpecPair == Init /\ [][NextPair]_vars
SpecRefuse == Init /\ [][NextRefuse]_vars
SpecConnect == Init /\ [][NextConnect]_vars

\* --------------------------------------------------------------- claims
\* A write or shutdown request of handle h is in flight.
Pending(h) ==
  \E r \in Reqs : reqs[r].inflight /\ reqs[r].h = h /\ reqs[r].kind \in {"write", "shutdown"}
\* A luv_on_read call of handle h is inside its "data" dispatch.
InDispatch(h) == \E i \in 1..Len(frames) : frames[i] = h
\* The one argument of a failure: an error value carrying the operation name.
IsError(args, op) == Len(args) = 1 /\ args[1].t = "error" /\ args[1].op = op

\* C1: whenever a write or shutdown request of a handle is in flight, or
\* its native read registration is active, or it is listening, the handle's
\* keep-alive count is at least 1.
C1_KeepAliveWhilePending ==
  \A h \in Handles : (Pending(h) \/ reading[h] \/ listening[h]) => refCount[h] >= 1

\* C2: once luv_after_write ran for a request, the request cannot complete
\* again, the handle's keep-alive count is what it was before the write was
\* issued (plus what other operations added or removed meanwhile), and the
\* request and its callback context were freed once each; on success and on
\* failure, with and without a callback.
C2_WriteCompletion ==
  out.op = "after_write" =>
    /\ ~reqs[out.req].inflight
    /\ refCount[out.h] = out.base
    /\ out.freedReq = 1 /\ ~reqs[out.req].reqLive
    /\ out.freedCtx = 1 /\ ~reqs[out.req].ctxLive
C2_Witness ==
  out.op = "after_write" /\ out.status = -1 /\ out.cb = Nil /\ refCount[out.h] = 0

\* C3: a read_stop that answers a read_start with nothing but read
\* completions in between leaves the keep-alive count at its value before
\* the read_start.
C3_ReadPairNetZero ==
  (out.op = "read_stop" /\ out.paired) => refCount[out.h] = out.base
C3_Witness ==
  out.op = "read_stop" /\ out.paired /\ InDispatch(out.h) /\ refCount[out.h] = out.base

\* C4: luv_after_write calls the callback the write was issued with exactly
\* once, with no argument on success and with one error value naming
\* "after_write" on status -1, and calls nothing when there was no callback.
C4_WriteCallback ==
  out.op = "after_write" =>
    /\ out.events = <<>>
    /\ out.cb.t # "function" => out.calls = <<>>
    /\ out.cb.t = "function" =>
         /\ Len(out.calls) = 1
         /\ out.calls[1].fn = out.cb
         /\ out.status # -1 => out.calls[1].args = <<>>
         /\ out.status = -1 => IsError(out.calls[1].args, "after_write")
C4_Witness ==
  out.op = "after_write" /\ out.status = -1 /\ out.cb.t = "function" /\ Len(out.calls) = 1

\* C5: luv_shutdown allocates one request with one callback context and adds
\* one to the keep-alive count; luv_after_shutdown calls the callback if there
\* is one (no argument on success, one error value on failure), takes one
\* from the count and frees the context and the request once each.
C5_ShutdownDiscipline ==
  /\ out.op = "shutdown" =>
       /\ reqs[out.req].kind = "shutdown" /\ reqs[out.req].reqLive /\ reqs[out.req].ctxLive
       /\ refCount[out.h] = out.before.ref + 1
       /\ out.cb.t = "function" => registry[reqs[out.req].rcb] = out.cb
  /\ out.op = "after_shutdown" =>
       /\ out.cb.t # "function" => out.calls = <<>>
       /\ out.cb.t = "function" =>
            /\ Len(out.calls) = 1
            /\ out.calls[1].fn = out.cb
            /\ out.status # -1 => out.calls[1].args = <<>>
            /\ out.status = -1 => IsError(out.calls[1].args, "after_shutdown")
       /\ refCount[out.h] = out.before.ref - 1
       /\ refCount[out.h] = out.base
       /\ out.freedReq = 1 /\ ~reqs[out.req].reqLive
       /\ out.freedCtx = 1 /\ ~reqs[out.req].ctxLive
C5_Witness ==
  out.op = "after_shutdown" /\ out.status = -1 /\ out.cb.t = "function" /\ out.freedCtx = 1

C7_DataArguments ==
  out.op = "on_read:data" =>
    /\ Len(out.events) = 1
    /\ out.events[1].name = "data"
    /\ Len(out.events[1].args) = 2
    /\ out.events[1].args[2] = Number(out.status)
    /\ out.status = BufLen => out.events[1].args[1] = HandleBuffer(out.h)
    /\ out.status < BufLen =>
         /\ out.events[1].args[1].t = "buffer"
         /\ out.events[1].args[1].slice
         /\ out.events[1].args[1].own = out.h
         /\ Len(out.events[1].args[1].data) = out.status
         /\ \A i \in 1..out.status :
              out.events[1].args[1].data[i] = HandleBuffer(out.h).data[i]
C7_Witness ==
  out.op = "on_read:data" /\ out.status = 0 /\ out.events[1].args[1].slice

\* C8: the read buffer's read-only flag is set while a "data" dispatch of the
\* handle is running, is clear when the dispatch has returned, and is
\* never set outside a dispatch.
C8_ReadOnlyDuringDispatch ==
  /\ \A h \in Handles : InDispatch(h) => isConst[h] = 1
  /\ \A h \in Handles : ~InDispatch(h) => isConst[h] = 0
  /\ out.op = "on_read:return" => isConst[out.h] = 0
C8_Witness ==
  out.op = "on_read:return" /\ out.before.isConst = 1 /\ isConst[out.h] = 0

\* C9: a read completion with nread < 0 emits one event, "end" with no
\* argument on EOF and "error" with one error value naming "on_read"
\* otherwise, raises nothing, and leaves the keep-alive count and the
\* read-only flag as they were.
C9_ReadStatus ==
  out.op = "on_read:status" =>
    /\ Len(out.events) = 1
    /\ out.err = UV_EOF => out.events[1] = Event("end", <<>>)
    /\ out.err # UV_EOF =>
         out.events[1].name = "error" /\ IsError(out.events[1].args, "on_read")
    /\ ~out.raised
    /\ refCount[out.h] = out.before.ref
    /\ isConst[out.h] = out.before.isConst
C9_Witness ==
  out.op = "on_read:status" /\ out.err # UV_EOF /\ out.events[1].name = "error"

\* C10: every exit of luv_on_read (data delivered, end, error, read-only
\* violation) has freed the native buffer's allocation once.
C10_BufferFreedOnEveryExit ==
  out.op \in {"on_read:return", "on_read:status", "on_read:violation"} => out.freedBuf = 1

\* C11: a listen whose native call fails raises to its caller and leaves
\* the handle without a "connection" listener it did not have before.
C11_FailedListenRegistersNothing ==
  (out.op = "listen" /\ out.status = -1) =>
    /\ out.raised
    /\ ~out.before.listeners => ~listeners[out.h]

\* C12: a listen whose native call succeeds emits one "listening" event
\* with no argument and adds exactly one to the keep-alive count; a listen
\* whose native call fails emits nothing and leaves the count as it was.
C12_ListenEventAndRef ==
  out.op = "listen" =>
    /\ out.status = 0 =>
         /\ ~out.raised
         /\ out.events = <<Event("listening", <<>>)>>
         /\ refCount[out.h] = out.before.ref + 1
         /\ listening[out.h]
    /\ out.status = -1 =>
         /\ out.events = <<>>
         /\ refCount[out.h] = out.before.ref
C12_Witness ==
  out.op = "listen" /\ out.status = 0 /\ Len(out.events) = 1 /\ refCount[out.h] = 2


\* C13: a read_start whose native registration is rejected raises to its
\* caller and leaves the keep-alive count as it was.
C13_RejectedReadStartRaises ==
  (out.op = "read_start" /\ out.status = -1) =>
    /\ out.raised
    /\ refCount[out.h] = out.before.ref


\* C14: whatever write or shutdown acquired (keep-alive reference, request,
\* callback context, registry references of callback and chunk) is released
\* when the operation is over: after the completion handler ran, and after
\* an issuance the native layer refused, which no completion will follow.
C14_EveryExitReleases ==
  /\ (out.op \in {"write", "shutdown"} /\ out.status = -1) =>
       /\ refCount[out.h] = out.before.ref
       /\ ~reqs[out.req].reqLive /\ ~reqs[out.req].ctxLive
       /\ registry[CbKey(out.req)] = Nil /\ registry[DataKey(out.req)] = Nil
  /\ out.op \in {"after_write", "after_shutdown"} =>
       /\ refCount[out.h] = out.before.ref - 1
       /\ ~reqs[out.req].reqLive /\ ~reqs[out.req].ctxLive
       /\ registry[CbKey(out.req)] = Nil /\ registry[DataKey(out.req)] = Nil


\* The registry keys held by the callback contexts of the requests in flight.
HeldKeys ==
  UNION {{reqs[r].rcb, reqs[r].rdata} \ {LUA_NOREF} : r \in {q \in Reqs : reqs[q].inflight}}

\* C15: the completion handler of a write or shutdown releases each
\* registry reference of the request's callback context once (the chunk of
\* a write, the callback if there is one), on the context as it was
\* allocated, and frees the context in the same call; at all times the
\* registry keys in use are exactly those held by the contexts of the
\* requests in flight, and a context that was freed holds none.
C15_ContextReferences ==
  /\ out.op \in {"after_write", "after_shutdown"} =>
       /\ out.freedCtx = 1
       /\ out.released = (IF out.op = "after_write" THEN 1 ELSE 0)
                           + (IF out.cb.t = "function" THEN 1 ELSE 0)
  /\ {k \in RefIds : registry[k] # Nil} = HeldKeys
  /\ \A r \in Reqs : reqs[r].inflight => reqs[r].ctxLive
  /\ \A r \in Reqs : ~reqs[r].ctxLive => reqs[r].rcb = LUA_NOREF /\ reqs[r].rdata = LUA_NOREF


C17_CompletionCallsOwnCallback ==
  /\ out.op \in {"after_write", "after_shutdown"} =>
       /\ Len(out.calls) <= 1
       /\ \A i \in 1..Len(out.calls) : out.calls[i].fn = out.cb
       /\ out.cb.t = "function" => Len(out.calls) = 1
       /\ ~reqs[out.req].inflight
       /\ registry[CbKey(out.req)] = Nil
  /\ out.op \in {"write", "shutdown"} => out.calls = <<>>
  /\ \A r \in Reqs :
       (reqs[r].inflight /\ reqs[r].cb.t = "function") =>
         /\ reqs[r].rcb # LUA_NOREF
         /\ registry[reqs[r].rcb] = reqs[r].cb
  /\ \A r, q \in Reqs :
       (r # q /\ reqs[r].inflight /\ reqs[q].inflight /\ reqs[r].rcb # LUA_NOREF)
         => reqs[r].rcb # reqs[q].rcb
\* The second of two writes on one handle completes before the first.
C17_Witness ==
  /\ out.op = "after_write" /\ out.cb.t = "function" /\ out.calls[1].fn = out.cb
  /\ \E r \in Reqs : /\ r < out.req /\ reqs[r].inflight /\ reqs[r].kind = "write"
                     /\ reqs[r].h = out.h /\ reqs[r].cb.t = "function" /\ reqs[r].cb # out.cb


\* C18: read_stop_noref ends the native read registration and leaves the
\* keep-alive count as it was, so that after read_start and read_stop_noref
\* (with nothing but read completions in between) the count is one above
\* its value before the read_start; after read_start and read_stop it is
\* equal to that value.
C18_StopNorefKeepsCount ==
  /\ out.op = "read_stop_noref" =>
       /\ ~reading[out.h]
       /\ refCount[out.h] = out.before.ref
       /\ out.paired => refCount[out.h] = out.base + 1
  /\ (out.op = "read_stop" /\ out.paired) =>
       /\ ~reading[out.h]
       /\ refCount[out.h] = out.base
C18_Witness ==
  out.op = "read_stop_noref" /\ out.paired /\ out.base = 1 /\ refCount[out.h] = 2


\* C19: a read completion with nread >= 0 that finds the read buffer's
\* read-only flag set raises an error, emits no event and leaves the flag
\* set; a "data" event is delivered only by a completion that found the
\* flag clear.
C19_NestedReadIsReported ==
  /\ out.op = "on_read:violation" =>
       /\ out.status >= 0
       /\ out.before.isConst = 1
       /\ out.raised
       /\ out.events = <<>>
       /\ isConst[out.h] = 1
  /\ out.op = "on_read:data" => out.before.isConst = 0
C19_Witness ==
  out.op = "on_read:violation" /\ InDispatch(out.h) /\ out.raised /\ isConst[out.h] = 1


\* C20: no handle's keep-alive count is ever below zero.
C20_CountNeverNegative ==
  \A h \in Handles : refCount[h] >= 0

====
